---- MODULE Spec2Model ----
(***************************************************************************)
(* Chain synchronisation engine of core/network/src/sync.rs: the per-peer  *)
(* state machine (ChainSync), the pending justification dispatcher         *)
(* (PendingJustifications) and the block collection they drive.            *)
(*                                                                         *)
(* A hash is a pair <<fork, number>>; the local canonical chain is fork    *)
(* "a".  A block number given by value is the pair <<"#", number>>, so     *)
(* that FromBlock::Number and FromBlock::Hash have one shape.  The client  *)
(* and the import queue are opaque oracles: their answers are inputs of    *)
(* the handlers.  PeerSync::recently_announced only feeds the BlockOrigin  *)
(* of a returned batch and is left out, as is the origin.                  *)
(***************************************************************************)
EXTENDS Integers, Sequences, FiniteSets, TLC

\* ------------------------------------------------------------------ bounds
NumPeers == 2
MaxNum == 2
TimeStep == 5

\* --------------------------------------------------------------- constants
MAX_BLOCKS_TO_REQUEST == 128
MAX_IMPORTING_BLOCKS == 2048
MAJOR_SYNC_BLOCKS == 5
JUSTIFICATION_RETRY_WAIT == 10
MAX_UNKNOWN_FORK_DOWNLOAD_LEN == 32

NodeIndex == 1..NumPeers
Forks == {"a", "b"}
Numbers == 0..MaxNum
Hashes == {<<f, n>> : f \in Forks, n \in Numbers}
NumberOf(h) == h[2]
Number(n) == <<"#", n>>
LocalHash(n) == <<"a", n>>
OtherFork(h) == <<IF h[1] = "a" THEN "b" ELSE "a", h[2]>>
ImportingCounts == {0, MAJOR_SYNC_BLOCKS + 1, MAX_IMPORTING_BLOCKS + 1}
BlockStatus == {"Err", "KnownBad", "Unknown", "Queued", "InChain"}

\* ------------------------------------------------------------------ helpers
Min(a, b) == IF a < b THEN a ELSE b
MapPut(f, k, v) == [x \in (DOMAIN f) \cup {k} |-> IF x = k THEN v ELSE f[x]]
MapRemove(f, k) == [x \in (DOMAIN f) \ {k} |-> f[x]]
MapRetain(f, keep) == [x \in (DOMAIN f) \cap keep |-> f[x]]
EmptyMap == [x \in {} |-> x]
Range(s) == {s[i] : i \in DOMAIN s}
Reverse(s) == [i \in 1..Len(s) |-> s[Len(s) + 1 - i]]
Back(s) == IF s = <<>> THEN <<>> ELSE <<s[Len(s)]>>
Perms(S) ==
  {s \in [1..Cardinality(S) -> S] : \A i, j \in 1..Cardinality(S) : i # j => s[i] # s[j]}

\* ------------------------------------------------------------ PeerSyncState
Available == [tag |-> "Available", arg |-> Number(0)]
AncestorSearch(n) == [tag |-> "AncestorSearch", arg |-> Number(n)]
DownloadingNew(n) == [tag |-> "DownloadingNew", arg |-> Number(n)]
DownloadingStale(h) == [tag |-> "DownloadingStale", arg |-> h]
DownloadingJustification(h) == [tag |-> "DownloadingJustification", arg |-> h]

PeerSync(common, hash, best, state) ==
  [common_number |-> common, best_hash |-> hash, best_number |-> best, state |-> state]

\* ------------------------------------------------------------------ protocol
required_block_attributes == "HEADER|BODY|JUSTIFICATION"

BlockRequest(fields, from, direction, max) ==
  [fields |-> fields, from |-> from, direction |-> direction, max |-> max]

send_message(e, who, request) ==
  [e EXCEPT !.sent = Append(@, [to |-> who, request |-> request])]

report_peer(e, who, severity) ==
  [e EXCEPT !.reported = Append(@, [who |-> who, severity |-> severity])]

\* ---------------------------------------------------- PendingJustifications
PendingJustificationsNew ==
  [justifications |-> {}, pending_requests |-> <<>>,
   peer_requests |-> EmptyMap, previous_requests |-> EmptyMap]

\* a retain that keeps every earlier request
RetainForever(requests) == requests

\* requests.retain(|(_, instant)| instant.elapsed() < JUSTIFICATION_RETRY_WAIT)
RetainRecent(requests) ==
  SelectSeq(requests, LAMBDA i : i.elapsed < JUSTIFICATION_RETRY_WAIT)

\* a choice of peers that overlooks the requests in flight
AvailablePeersIdle(e, order) ==
  SelectSeq(order, LAMBDA p : e.peers[p].state = Available)

\* the peers the dispatch may ask, in the iteration order of the peers map
AvailablePeers(e, order) ==
  SelectSeq(order, LAMBDA p :
    /\ e.peers[p].state = Available
    /\ p \notin DOMAIN e.justifications.peer_requests)

\* an eligibility test that forgets the earlier requests
PeerEligibleNoHistory(e, peer, request) ==
  e.peers[peer].best_number >= request[2]

PeerEligible(e, peer, request) ==
  /\ e.peers[peer].best_number >= request[2]
  /\ ~ (/\ request \in DOMAIN e.justifications.previous_requests
        /\ \E i \in Range(e.justifications.previous_requests[request]) : i.peer = peer)

JustificationRequest(request) ==
  BlockRequest("JUSTIFICATION", request[1], "Ascending", 1)

\* a dispatch that gives a request up at the first peer that cannot serve it
RECURSIVE DispatchLoopImpatient(_, _, _, _)
DispatchLoopImpatient(e, available_peers, last_peer, unhandled_requests) ==
  IF available_peers = <<>> \/ e.justifications.pending_requests = <<>>
  THEN [e EXCEPT !.justifications.pending_requests = @ \o unhandled_requests]
  ELSE
    LET peer == Head(available_peers)
        rest == Tail(available_peers)
        request == Head(e.justifications.pending_requests)
    IN IF ~ PeerEligible(e, peer, request)
       THEN LET pushed == Append(rest, peer)
            IN DispatchLoopImpatient(
                 [e EXCEPT !.justifications.pending_requests = Tail(@)],
                 pushed, Back(pushed), Append(unhandled_requests, request))
       ELSE DispatchLoopImpatient(
              send_message(
                [e EXCEPT !.justifications.pending_requests = Tail(@),
                          !.justifications.peer_requests = MapPut(@, peer, request),
                          !.peers[peer].state = DownloadingJustification(request[1])],
                peer, JustificationRequest(request)),
              rest, Back(rest), unhandled_requests)

RECURSIVE DispatchLoop(_, _, _, _)
DispatchLoop(e, available_peers, last_peer, unhandled_requests) ==
  IF available_peers = <<>> \/ e.justifications.pending_requests = <<>>
  THEN [e EXCEPT !.justifications.pending_requests = @ \o unhandled_requests]
  ELSE
    LET peer == Head(available_peers)
        rest == Tail(available_peers)
        request == Head(e.justifications.pending_requests)
    IN IF ~ PeerEligible(e, peer, request)
       THEN LET pushed == Append(rest, peer)
            IN IF <<peer>> = last_peer
               THEN DispatchLoop(
                      [e EXCEPT !.justifications.pending_requests = Tail(@)],
                      pushed, Back(pushed), Append(unhandled_requests, request))
               ELSE DispatchLoop(e, pushed, last_peer, unhandled_requests)
       ELSE DispatchLoop(
              send_message(
                [e EXCEPT !.justifications.pending_requests = Tail(@),
                          !.justifications.peer_requests = MapPut(@, peer, request),
                          !.peers[peer].state = DownloadingJustification(request[1])],
                peer, JustificationRequest(request)),
              rest, Back(rest), unhandled_requests)

\* the number of times the loop of dispatch takes a peer from available_peers
RECURSIVE DispatchIterations(_, _, _, _)
DispatchIterations(e, available_peers, last_peer, unhandled_requests) ==
  IF available_peers = <<>>
  THEN 0
  ELSE IF e.justifications.pending_requests = <<>>
  THEN 1
  ELSE
    LET peer == Head(available_peers)
        rest == Tail(available_peers)
        request == Head(e.justifications.pending_requests)
    IN IF ~ PeerEligible(e, peer, request)
       THEN LET pushed == Append(rest, peer)
            IN IF <<peer>> = last_peer
               THEN 1 + DispatchIterations(
                          [e EXCEPT !.justifications.pending_requests = Tail(@)],
                          pushed, Back(pushed), Append(unhandled_requests, request))
               ELSE 1 + DispatchIterations(e, pushed, last_peer, unhandled_requests)
       ELSE 1 + DispatchIterations(
                  [e EXCEPT !.justifications.pending_requests = Tail(@),
                            !.justifications.peer_requests = MapPut(@, peer, request),
                            !.peers[peer].state = DownloadingJustification(request[1])],
                  rest, Back(rest), unhandled_requests)

\* a dispatch that forgets the requests it could not hand out
dispatch_dropping(e, order) ==
  IF e.justifications.pending_requests = <<>>
  THEN e
  ELSE LET purged == [e EXCEPT !.justifications.previous_requests =
                        [r \in DOMAIN @ |-> RetainRecent(@[r])]]
           available_peers == AvailablePeers(purged, order)
       IN [DispatchLoop(purged, available_peers, Back(available_peers), <<>>)
             EXCEPT !.justifications.pending_requests = <<>>]

dispatch(e, order) ==
  IF e.justifications.pending_requests = <<>>
  THEN e
  ELSE LET purged == [e EXCEPT !.justifications.previous_requests =
                        [r \in DOMAIN @ |-> RetainRecent(@[r])]]
           available_peers == AvailablePeers(purged, order)
       IN DispatchLoop(purged, available_peers, Back(available_peers), <<>>)

\* a queue_request that queues a request it already tracks
queue_request_again(pj, justification) ==
  [pj EXCEPT !.justifications = @ \cup {justification},
             !.pending_requests = Append(@, justification)]

queue_request(pj, justification) ==
  IF justification \in pj.justifications
  THEN pj
  ELSE [pj EXCEPT !.justifications = @ \cup {justification},
                  !.pending_requests = Append(@, justification)]

\* a disconnect that forgets the request the peer was serving
justifications_peer_disconnected_drop(pj, who) ==
  [pj EXCEPT !.peer_requests = MapRemove(@, who)]

justifications_peer_disconnected(pj, who) ==
  IF who \in DOMAIN pj.peer_requests
  THEN [pj EXCEPT !.peer_requests = MapRemove(@, who),
                  !.pending_requests = <<pj.peer_requests[who]>> \o @]
  ELSE pj

\* an on_response that requeues the request also when its justification is accepted
on_response_no_return(e, who, justification) ==
  LET pj == e.justifications
  IN IF who \notin DOMAIN pj.peer_requests
     THEN e
     ELSE
       LET request == pj.peer_requests[who]
           removed == [pj EXCEPT !.peer_requests = MapRemove(@, who)]
       IN IF justification = "good"
          THEN [e EXCEPT !.justifications =
                  [removed EXCEPT !.justifications = @ \ {request},
                                  !.previous_requests = MapRemove(@, request),
                                  !.pending_requests = <<request>> \o @]]
          ELSE [e EXCEPT !.justifications =
                  [removed EXCEPT !.pending_requests = <<request>> \o @]]

\* justification: "none" (absent), "good" (import_justification accepts it),
\* "bad" (import_justification rejects it)
on_response(e, who, justification) ==
  LET pj == e.justifications
  IN IF who \notin DOMAIN pj.peer_requests
     THEN e
     ELSE
       LET request == pj.peer_requests[who]
           removed == [pj EXCEPT !.peer_requests = MapRemove(@, who)]
           requeued(p) == [p EXCEPT !.pending_requests = <<request>> \o @]
       IN CASE justification = "good" ->
                 [e EXCEPT !.justifications =
                    [removed EXCEPT !.justifications = @ \ {request},
                                    !.previous_requests = MapRemove(@, request)]]
            [] justification = "bad" ->
                 report_peer([e EXCEPT !.justifications = requeued(removed)], who, "Bad")
            [] OTHER ->
                 [e EXCEPT !.justifications = requeued(
                    [removed EXCEPT !.previous_requests =
                       MapPut(@, request,
                              Append(IF request \in DOMAIN @ THEN @[request] ELSE <<>>,
                                     [peer |-> who, elapsed |-> 0]))])]

\* a collect_garbage that keeps the requests for the finalized block itself
collect_garbage_inclusive(pj, best_finalized) ==
  [justifications |-> {r \in pj.justifications : r[2] >= best_finalized},
   pending_requests |-> SelectSeq(pj.pending_requests, LAMBDA r : r[2] >= best_finalized),
   peer_requests |->
     MapRetain(pj.peer_requests,
               {p \in DOMAIN pj.peer_requests : pj.peer_requests[p][2] >= best_finalized}),
   previous_requests |->
     MapRetain(pj.previous_requests,
               {r \in DOMAIN pj.previous_requests : r[2] >= best_finalized})]

collect_garbage(pj, best_finalized) ==
  [justifications |-> {r \in pj.justifications : r[2] > best_finalized},
   pending_requests |-> SelectSeq(pj.pending_requests, LAMBDA r : r[2] > best_finalized),
   peer_requests |->
     MapRetain(pj.peer_requests,
               {p \in DOMAIN pj.peer_requests : pj.peer_requests[p][2] > best_finalized}),
   previous_requests |->
     MapRetain(pj.previous_requests,
               {r \in DOMAIN pj.previous_requests : r[2] > best_finalized})]

\* ----------------------------------------------------------- BlockCollection
\* blocks: number -> downloaded block; peer_requests: peer -> <<start, end>>,
\* the range [start, end) the peer is downloading
BlockCollectionNew == [blocks |-> EmptyMap, peer_requests |-> EmptyMap]

BlockIsFree(bc, who, n) ==
  /\ n \notin DOMAIN bc.blocks
  /\ \A p \in (DOMAIN bc.peer_requests) \ {who} :
       ~ (bc.peer_requests[p][1] <= n /\ n < bc.peer_requests[p][2])

RECURSIVE RangeEnd(_, _, _, _, _)
RangeEnd(bc, who, n, limit, peer_best) ==
  IF n >= limit \/ n > peer_best \/ ~ BlockIsFree(bc, who, n)
  THEN n
  ELSE RangeEnd(bc, who, n + 1, limit, peer_best)

needed_blocks(bc, who, count, peer_best, common) ==
  LET wanted == {n \in (common + 1)..peer_best : BlockIsFree(bc, who, n)}
  IN IF wanted = {}
     THEN [found |-> FALSE, start |-> 0, end |-> 0, bc |-> bc]
     ELSE LET start == CHOOSE n \in wanted : \A m \in wanted : n <= m
              end == RangeEnd(bc, who, start, start + count, peer_best)
          IN [found |-> TRUE, start |-> start, end |-> end,
              bc |-> [bc EXCEPT !.peer_requests = MapPut(@, who, <<start, end>>)]]

insert(bc, start, blks, who) ==
  [bc EXCEPT !.blocks =
     [n \in (DOMAIN @) \cup {start + i - 1 : i \in 1..Len(blks)} |->
        IF n >= start /\ n < start + Len(blks) THEN blks[n - start + 1] ELSE @[n]]]

RECURSIVE DrainTo(_, _)
DrainTo(bc, n) == IF n \in DOMAIN bc.blocks THEN DrainTo(bc, n + 1) ELSE n

drain(bc, from) ==
  LET to == DrainTo(bc, from)
  IN [drained |-> [i \in 1..(to - from) |-> bc.blocks[from + i - 1]],
      bc |-> [bc EXCEPT !.blocks = MapRetain(@, (DOMAIN @) \ (from..(to - 1)))]]

clear_peer_download(bc, who) == [bc EXCEPT !.peer_requests = MapRemove(@, who)]

\* ------------------------------------------------------------------ ChainSync
\* a request_ancestry that asks for the block after the searched one
request_ancestry_next(e, who, block) ==
  send_message(e, who, BlockRequest("HEADER|JUSTIFICATION", Number(block + 1), "Ascending", 1))

request_ancestry(e, who, block) ==
  send_message(e, who, BlockRequest("HEADER|JUSTIFICATION", Number(block), "Ascending", 1))

\* a download_new that does not look at the import queue
download_new_unthrottled(e, who, importing_count) ==
  IF who \notin DOMAIN e.peers \/ e.peers[who].state # Available
  THEN e
  ELSE LET peer == e.peers[who]
           range == needed_blocks(e.blocks, who, MAX_BLOCKS_TO_REQUEST,
                                  peer.best_number, peer.common_number)
       IN IF ~ range.found
          THEN e
          ELSE send_message(
                 [e EXCEPT !.blocks = range.bc,
                           !.peers[who].state = DownloadingNew(range.start)],
                 who,
                 BlockRequest(required_block_attributes, Number(range.start),
                              "Ascending", range.end - range.start))

download_new(e, who, importing_count) ==
  IF who \notin DOMAIN e.peers
  THEN e
  ELSE IF importing_count > MAX_IMPORTING_BLOCKS
  THEN e
  ELSE IF e.peers[who].state # Available
  THEN e
  ELSE LET peer == e.peers[who]
           range == needed_blocks(e.blocks, who, MAX_BLOCKS_TO_REQUEST,
                                  peer.best_number, peer.common_number)
       IN IF ~ range.found
          THEN e
          ELSE send_message(
                 [e EXCEPT !.blocks = range.bc,
                           !.peers[who].state = DownloadingNew(range.start)],
                 who,
                 BlockRequest(required_block_attributes, Number(range.start),
                              "Ascending", range.end - range.start))

download_stale(e, who, hash) ==
  IF who \in DOMAIN e.peers /\ e.peers[who].state = Available
  THEN send_message([e EXCEPT !.peers[who].state = DownloadingStale(hash)], who,
                    BlockRequest(required_block_attributes, hash, "Ascending", 1))
  ELSE e

\* a download_unknown_stale that asks for the announced block only
download_unknown_stale_single(e, who, hash) ==
  IF who \in DOMAIN e.peers /\ e.peers[who].state = Available
  THEN send_message([e EXCEPT !.peers[who].state = DownloadingStale(hash)], who,
                    BlockRequest(required_block_attributes, hash, "Descending", 1))
  ELSE e

download_unknown_stale(e, who, hash) ==
  IF who \in DOMAIN e.peers /\ e.peers[who].state = Available
  THEN send_message([e EXCEPT !.peers[who].state = DownloadingStale(hash)], who,
                    BlockRequest(required_block_attributes, hash, "Descending",
                                 MAX_UNKNOWN_FORK_DOWNLOAD_LEN))
  ELSE e

insert_peer(e, who, sync) == [e EXCEPT !.peers = MapPut(@, who, sync)]

\* a new_peer that searches the common ancestor also under a busy import queue
new_peer_searching(e, who, peer_info, status, importing_count) ==
  IF who \notin DOMAIN peer_info
  THEN e
  ELSE
    LET info == peer_info[who]
    IN CASE status = "Err" -> report_peer(e, who, "Useless")
         [] status = "KnownBad" -> report_peer(e, who, "Bad")
         [] status = "Unknown" /\ info.best_number = 0 -> report_peer(e, who, "Bad")
         [] status = "Unknown" /\ info.best_number # 0 ->
              LET our_best == e.best_queued_number
              IN IF our_best > 0
                 THEN LET common_best == Min(our_best, info.best_number)
                      IN request_ancestry(
                           insert_peer(e, who, PeerSync(0, info.best_hash, info.best_number,
                                                        AncestorSearch(common_best))),
                           who, common_best)
                 ELSE download_new(
                        insert_peer(e, who, PeerSync(0, info.best_hash, info.best_number,
                                                     Available)),
                        who, importing_count)
         [] OTHER ->
              insert_peer(e, who, PeerSync(info.best_number, info.best_hash,
                                           info.best_number, Available))

\* info: the peer's handshake, status: block_status of info.best_hash
new_peer(e, who, peer_info, status, importing_count) ==
  IF who \notin DOMAIN peer_info
  THEN e
  ELSE
    LET info == peer_info[who]
    IN CASE status = "Err" -> report_peer(e, who, "Useless")
         [] status = "KnownBad" -> report_peer(e, who, "Bad")
         [] status = "Unknown" /\ info.best_number = 0 -> report_peer(e, who, "Bad")
         [] status = "Unknown" /\ info.best_number # 0
              /\ importing_count > MAJOR_SYNC_BLOCKS ->
              insert_peer(e, who, PeerSync(e.best_queued_number, info.best_hash,
                                           info.best_number, Available))
         [] status = "Unknown" /\ info.best_number # 0
              /\ ~ (importing_count > MAJOR_SYNC_BLOCKS) ->
              LET our_best == e.best_queued_number
              IN IF our_best > 0
                 THEN LET common_best == Min(our_best, info.best_number)
                      IN request_ancestry(
                           insert_peer(e, who, PeerSync(0, info.best_hash, info.best_number,
                                                        AncestorSearch(common_best))),
                           who, common_best)
                 ELSE download_new(
                        insert_peer(e, who, PeerSync(0, info.best_hash, info.best_number,
                                                     Available)),
                        who, importing_count)
         [] OTHER ->
              insert_peer(e, who, PeerSync(info.best_number, info.best_hash,
                                           info.best_number, Available))

\* a block_queued that takes every queued block for the best one
block_queued_unguarded(e, hash, number) ==
  [e EXCEPT !.best_queued_number = number,
            !.best_queued_hash = hash,
            !.peers =
              [n \in DOMAIN @ |->
                 [@[n] EXCEPT
                    !.state = IF @.tag = "AncestorSearch" THEN Available ELSE @,
                    !.common_number = IF e.peers[n].best_number >= number
                                      THEN number ELSE e.peers[n].best_number]]]

block_queued(e, hash, number) ==
  LET advanced == IF number > e.best_queued_number
                  THEN [e EXCEPT !.best_queued_number = number, !.best_queued_hash = hash]
                  ELSE e
  IN [advanced EXCEPT !.peers =
        [n \in DOMAIN @ |->
           [@[n] EXCEPT
              !.state = IF @.tag = "AncestorSearch" THEN Available ELSE @,
              !.common_number = IF e.peers[n].best_number >= number
                                THEN number ELSE e.peers[n].best_number]]]

RECURSIVE DownloadNewAll(_, _, _)
DownloadNewAll(e, order, importing_count) ==
  IF order = <<>>
  THEN e
  ELSE DownloadNewAll(download_new(e, Head(order), importing_count),
                      Tail(order), importing_count)

\* order: the iteration order of the peers map
maintain_sync(e, order, importing_count) ==
  dispatch(DownloadNewAll(e, order, importing_count), order)

is_already_downloading(e, hash) ==
  \E p \in DOMAIN e.peers : e.peers[p].state = DownloadingStale(hash)

\* the Option on_block_data returns: <<>> (None) or <<the number of blocks>>
Returned(e, blks) == [e EXCEPT !.returned = <<Len(blks)>>]

\* new_blocks accepted: queue the last one, maintain the sync, return the batch
AcceptBlocks(e, new_blocks, order, importing_count) ==
  LET queued == IF new_blocks = <<>>
                THEN e
                ELSE block_queued(e, new_blocks[Len(new_blocks)],
                                  NumberOf(new_blocks[Len(new_blocks)]))
  IN Returned(maintain_sync(queued, order, importing_count), new_blocks)

\* an on_block_data whose ancestor search asks for the same block again
on_block_data_stalled(e, who, request, response, block_hash, order, importing_count) ==
  IF who \notin DOMAIN e.peers
  THEN AcceptBlocks(e, <<>>, order, importing_count)
  ELSE
    LET peer == e.peers[who]
        blocks == IF request.direction = "Descending" THEN Reverse(response) ELSE response
    IN CASE peer.state.tag = "DownloadingNew" ->
              LET inserted == insert(clear_peer_download(e.blocks, who),
                                     peer.state.arg[2], blocks, who)
                  drained == drain(inserted, e.best_queued_number + 1)
              IN AcceptBlocks([e EXCEPT !.peers[who].state = Available,
                                        !.blocks = drained.bc],
                              drained.drained, order, importing_count)
         [] peer.state.tag = "DownloadingStale" ->
              AcceptBlocks([e EXCEPT !.peers[who].state = Available],
                           blocks, order, importing_count)
         [] peer.state.tag = "AncestorSearch" ->
              LET n == peer.state.arg[2]
              IN IF blocks = <<>>
                 THEN report_peer(e, who, "Bad")
                 ELSE CASE block_hash = "some" /\ LocalHash(n) = blocks[1] ->
                             AcceptBlocks(
                               [e EXCEPT !.peers[who].common_number =
                                           IF @ < n THEN n ELSE @,
                                         !.peers[who].state = Available],
                               <<>>, order, importing_count)
                        [] block_hash # "err" /\ ~ (block_hash = "some" /\ LocalHash(n) = blocks[1])
                             /\ n > 0 ->
                             request_ancestry(e, who, n)
                        [] block_hash # "err" /\ ~ (block_hash = "some" /\ LocalHash(n) = blocks[1])
                             /\ ~ (n > 0) ->
                             report_peer(e, who, "Bad")
                        [] OTHER -> report_peer(e, who, "Useless")
         [] OTHER -> AcceptBlocks(e, <<>>, order, importing_count)

\* block_hash: the client's answer to block_hash(n): "some" (Ok(Some(LocalHash(n)))),
\* "none" (Ok(None)) or "err"
on_block_data(e, who, request, response, block_hash, order, importing_count) ==
  IF who \notin DOMAIN e.peers
  THEN AcceptBlocks(e, <<>>, order, importing_count)
  ELSE
    LET peer == e.peers[who]
        blocks == IF request.direction = "Descending" THEN Reverse(response) ELSE response
    IN CASE peer.state.tag = "DownloadingNew" ->
              LET inserted == insert(clear_peer_download(e.blocks, who),
                                     peer.state.arg[2], blocks, who)
                  drained == drain(inserted, e.best_queued_number + 1)
              IN AcceptBlocks([e EXCEPT !.peers[who].state = Available,
                                        !.blocks = drained.bc],
                              drained.drained, order, importing_count)
         [] peer.state.tag = "DownloadingStale" ->
              AcceptBlocks([e EXCEPT !.peers[who].state = Available],
                           blocks, order, importing_count)
         [] peer.state.tag = "AncestorSearch" ->
              LET n == peer.state.arg[2]
              IN IF blocks = <<>>
                 THEN report_peer(e, who, "Bad")
                 ELSE CASE block_hash = "some" /\ LocalHash(n) = blocks[1] ->
                             AcceptBlocks(
                               [e EXCEPT !.peers[who].common_number =
                                           IF @ < n THEN n ELSE @,
                                         !.peers[who].state = Available],
                               <<>>, order, importing_count)
                        [] block_hash # "err" /\ ~ (block_hash = "some" /\ LocalHash(n) = blocks[1])
                             /\ n > 0 ->
                             request_ancestry(
                               [e EXCEPT !.peers[who].state = AncestorSearch(n - 1)],
                               who, n - 1)
                        [] block_hash # "err" /\ ~ (block_hash = "some" /\ LocalHash(n) = blocks[1])
                             /\ ~ (n > 0) ->
                             report_peer(e, who, "Bad")
                        [] OTHER -> report_peer(e, who, "Useless")
         [] OTHER -> AcceptBlocks(e, <<>>, order, importing_count)

\* an on_block_justification_data that takes an empty response for a bad one
on_block_justification_data_harsh(e, who, response, order, importing_count) ==
  IF who \in DOMAIN e.peers /\ e.peers[who].state.tag = "DownloadingJustification"
  THEN LET hash == e.peers[who].state.arg
           available == [e EXCEPT !.peers[who].state = Available]
       IN IF response = <<>> \/ hash # response[1].hash
          THEN report_peer(available, who, "Bad")
          ELSE maintain_sync(on_response(available, who, response[1].justification),
                             order, importing_count)
  ELSE maintain_sync(e, order, importing_count)

\* response: <<>> or <<[hash, justification]>>
on_block_justification_data(e, who, response, order, importing_count) ==
  IF who \in DOMAIN e.peers /\ e.peers[who].state.tag = "DownloadingJustification"
  THEN LET hash == e.peers[who].state.arg
           available == [e EXCEPT !.peers[who].state = Available]
       IN IF response = <<>>
          THEN report_peer(available, who, "Useless")
          ELSE IF hash # response[1].hash
          THEN report_peer(available, who, "Bad")
          ELSE maintain_sync(on_response(available, who, response[1].justification),
                             order, importing_count)
  ELSE maintain_sync(e, order, importing_count)

tick(e, order) == dispatch(e, order)

request_justification(e, hash, number, order) ==
  dispatch([e EXCEPT !.justifications = queue_request(@, <<hash, number>>)], order)

block_finalized(e, number) ==
  [e EXCEPT !.justifications = collect_garbage(@, number)]

update_chain_info(e, hash, number) == block_queued(e, hash, number)

\* an on_block_announce that treats a searching peer like any other
on_block_announce_eager(e, who, hash, header, known_parent, known, importing_count) ==
  LET number == header.number
  IN IF number <= 0 \/ who \notin DOMAIN e.peers
     THEN e
     ELSE
       LET raised == IF number > e.peers[who].best_number
                     THEN [e EXCEPT !.peers[who].best_number = number,
                                    !.peers[who].best_hash = hash]
                     ELSE e
           common ==
             IF header.parent_hash = e.best_queued_hash \/ known_parent
             THEN [raised EXCEPT !.peers[who].common_number = number - 1]
             ELSE IF known
             THEN [raised EXCEPT !.peers[who].common_number = number]
             ELSE raised
       IN IF ~ (known \/ is_already_downloading(common, hash))
          THEN IF number <= common.best_queued_number
               THEN IF ~ (known_parent
                          \/ is_already_downloading(common, header.parent_hash))
                    THEN download_unknown_stale(common, who, hash)
                    ELSE download_stale(common, who, hash)
               ELSE download_new(common, who, importing_count)
          ELSE common

on_block_announce(e, who, hash, header, known_parent, known, importing_count) ==
  LET number == header.number
  IN IF number <= 0 \/ who \notin DOMAIN e.peers
     THEN e
     ELSE
       LET raised == IF number > e.peers[who].best_number
                     THEN [e EXCEPT !.peers[who].best_number = number,
                                    !.peers[who].best_hash = hash]
                     ELSE e
       IN IF e.peers[who].state.tag = "AncestorSearch"
          THEN raised
          ELSE
            LET common ==
                  IF header.parent_hash = e.best_queued_hash \/ known_parent
                  THEN [raised EXCEPT !.peers[who].common_number = number - 1]
                  ELSE IF known
                  THEN [raised EXCEPT !.peers[who].common_number = number]
                  ELSE raised
            IN IF ~ (known \/ is_already_downloading(common, hash))
               THEN IF number <= common.best_queued_number
                    THEN IF ~ (known_parent
                               \/ is_already_downloading(common, header.parent_hash))
                         THEN download_unknown_stale(common, who, hash)
                         ELSE download_stale(common, who, hash)
                    ELSE download_new(common, who, importing_count)
               ELSE common

peer_disconnected(e, who, order, importing_count) ==
  maintain_sync(
    [e EXCEPT !.blocks = clear_peer_download(@, who),
              !.peers = MapRemove(@, who),
              !.justifications = justifications_peer_disconnected(@, who)],
    order, importing_count)

RECURSIVE NewPeerAll(_, _, _, _)
NewPeerAll(e, ids, peer_info, statuses) ==
  IF ids = <<>>
  THEN e
  ELSE NewPeerAll(new_peer(e, Head(ids), peer_info, statuses[Head(ids)], 0),
                  Tail(ids), peer_info, statuses)

\* info: the client's info(): <<>> (Err) or <<best_queued_number>>; import_queue.clear()
\* leaves importing_count = 0
restart(e, info, ids, peer_info, statuses) ==
  LET reset == [e EXCEPT
                  !.blocks = BlockCollectionNew,
                  !.best_queued_hash = IF info = <<>> THEN LocalHash(0) ELSE LocalHash(info[1]),
                  !.best_queued_number = IF info = <<>> THEN 0 ELSE info[1],
                  !.peers = EmptyMap]
  IN NewPeerAll(reset, ids, peer_info, statuses)

clear(e) == [e EXCEPT !.blocks = BlockCollectionNew, !.peers = EmptyMap]

\* ---------------------------------------------------------------------- state
VARIABLES
  peers,               \* ChainSync::peers
  blocks,              \* ChainSync::blocks
  best_queued_number,  \* ChainSync::best_queued_number
  best_queued_hash,    \* ChainSync::best_queued_hash
  justifications,      \* ChainSync::justifications
  importing_count,     \* import_queue.status().importing_count
  peer_info,           \* protocol.peer_info: the handshake of each connected peer
  wire,                \* per peer, the last request sent to it, until it is answered
  orphaned,            \* per peer, whether an earlier request was never answered
  sent,                \* the messages the last handler sent, in order
  reported,            \* the peers the last handler reported
  returned,            \* what the last on_block_data returned
  op,                  \* the last handler, the peer and the block number it was about
                       \* (for tick: a peer whose answer its dispatch forgets)
  answered_none,       \* who answered which justification request without one, and when
  queued,              \* the tracked justification requests, in the order they were queued
  search               \* per peer in AncestorSearch, the height its search began at and the
                       \* ancestry responses it has given since

vars == <<peers, blocks, best_queued_number, best_queued_hash, justifications,
          importing_count, peer_info, wire, orphaned, sent, reported, returned, op, answered_none,
          queued, search>>

NoReturn == <<>>

Cur ==
  [peers |-> peers, blocks |-> blocks, best_queued_number |-> best_queued_number,
   best_queued_hash |-> best_queued_hash, justifications |-> justifications,
   sent |-> <<>>, reported |-> <<>>, returned |-> NoReturn]

Op(name, who, number) == [name |-> name, who |-> who, number |-> number]

SentTo(msgs, p) ==
  LET to_p == SelectSeq(msgs, LAMBDA m : m.to = p)
  IN [i \in 1..Len(to_p) |-> to_p[i].request]

\* a request that is tracked no longer ends the watch on its earlier answers
Untrack(log, pj) ==
  {[l EXCEPT !.live = @ /\ l.request \in pj.justifications] : l \in log}

\* The outer protocol keeps the last request it sent to a peer and hands the engine
\* the response to that one only: a request sent over an unanswered one orphans it.
\* e: the engine's state after the handler, w: the requests still unanswered before
\* it, o: the handler
NoSearch == [start |-> 0, responses |-> 0]

\* the search of peer p after the handler o took the engine to e
Searching(e, o, p) ==
  IF p \notin DOMAIN e.peers \/ e.peers[p].state.tag # "AncestorSearch"
  THEN NoSearch
  ELSE IF o.name = "restart" \/ (o.name = "new_peer" /\ o.who = p)
  THEN [start |-> e.peers[p].state.arg[2], responses |-> 0]
  ELSE IF o.name = "on_block_data" /\ o.who = p
  THEN [search[p] EXCEPT !.responses = @ + 1]
  ELSE search[p]

Commit(e, w, o) ==
  /\ peers' = e.peers
  /\ blocks' = e.blocks
  /\ best_queued_number' = e.best_queued_number
  /\ best_queued_hash' = e.best_queued_hash
  /\ justifications' = e.justifications
  /\ sent' = e.sent
  /\ reported' = e.reported
  /\ returned' = e.returned
  /\ wire' = [p \in NodeIndex |-> Back(w[p] \o SentTo(e.sent, p))]
  /\ orphaned' = [p \in NodeIndex |->
                    /\ ~ (o.name = "peer_disconnected" /\ o.who = p)
                    /\ orphaned[p] \/ Len(w[p] \o SentTo(e.sent, p)) > 1]
  /\ op' = o
  /\ queued' = LET kept == SelectSeq(queued, LAMBDA r : r \in e.justifications.justifications)
                   new == e.justifications.justifications \ Range(kept)
               IN IF new = {} THEN kept ELSE Append(kept, CHOOSE r \in new : TRUE)
  /\ search' = [p \in NodeIndex |-> Searching(e, o, p)]

KeepLog(e) == answered_none' = Untrack(answered_none, e.justifications)

Orders == Perms(DOMAIN peers)

\* ----------------------------------------------------------------- responses
RECURSIVE Chain(_, _, _, _)
Chain(f, n, step, len) ==
  IF len = 0 THEN <<>> ELSE <<(<<f, n>>)>> \o Chain(f, n + step, step, len - 1)

Responses(request, forks) ==
  IF request.from[1] = "#"
  THEN {Chain(f, request.from[2], 1, len) :
          f \in forks, len \in 0..Min(request.max, MaxNum - request.from[2] + 1)}
  ELSE IF request.direction = "Ascending"
  THEN {<<>>, <<request.from>>}
  ELSE {Chain(request.from[1], request.from[2], -1, len) :
          len \in 0..Min(request.max, request.from[2] + 1)}

\* answers: the justifications a response may carry ("none", "good", "bad") and
\* "empty" (no block), "mismatch" (a block of another hash)
JustificationResponses(request, answers) ==
  {<<>> : a \in answers \cap {"empty"}}
  \cup {<<[hash |-> OtherFork(request.from), justification |-> "none"]>> :
          a \in answers \cap {"mismatch"}}
  \cup {<<[hash |-> request.from, justification |-> j]>> :
          j \in answers \cap {"none", "good", "bad"}}

JustificationAnswers == {"none", "good", "bad", "empty", "mismatch"}

JustificationTargets == {<<LocalHash(n), n>> : n \in 1..MaxNum}

\* ------------------------------------------------------------------- actions
\* ChainSync::new for a client at genesis (info.chain.best_number = 0, nothing
\* queued); update_chain_info and restart move the best queued block
Init ==
  /\ peers = EmptyMap
  /\ blocks = BlockCollectionNew
  /\ best_queued_number = 0
  /\ best_queued_hash = LocalHash(best_queued_number)
  /\ justifications = PendingJustificationsNew
  /\ importing_count = 0
  /\ peer_info = EmptyMap
  /\ wire = [p \in NodeIndex |-> <<>>]
  /\ orphaned = [p \in NodeIndex |-> FALSE]
  /\ sent = <<>>
  /\ reported = <<>>
  /\ returned = NoReturn
  /\ op = Op("new", 0, 0)
  /\ answered_none = {}
  /\ queued = <<>>
  /\ search = [p \in NodeIndex |-> NoSearch]

NewPeer(ids, hashes, statuses) ==
  \E who \in ids \ DOMAIN peer_info, hash \in hashes, status \in statuses :
    LET info == MapPut(peer_info, who, [best_hash |-> hash, best_number |-> NumberOf(hash)])
        e == new_peer(Cur, who, info, status, importing_count)
    IN /\ peer_info' = info
       /\ Commit(e, wire, Op("new_peer", who, 0))
       /\ KeepLog(e)
       /\ UNCHANGED importing_count

OnBlockData(forks, client) ==
  \E who \in DOMAIN peer_info :
    /\ wire[who] # <<>>
    /\ Head(wire[who]).fields # "JUSTIFICATION"
    /\ \E response \in Responses(Head(wire[who]), forks), block_hash \in client, order \in Orders :
         LET e == on_block_data(Cur, who, Head(wire[who]), response, block_hash,
                                order, importing_count)
         IN /\ Commit(e, [wire EXCEPT ![who] = Tail(@)], Op("on_block_data", who, 0))
            /\ KeepLog(e)
            /\ UNCHANGED <<importing_count, peer_info>>

AnsweredNone(who, response) ==
  /\ who \in DOMAIN peers
  /\ peers[who].state.tag = "DownloadingJustification"
  /\ response # <<>>
  /\ response[1].hash = peers[who].state.arg
  /\ response[1].justification = "none"
  /\ who \in DOMAIN justifications.peer_requests

OnBlockJustificationData(answers, watch) ==
  \E who \in DOMAIN peer_info :
    /\ wire[who] # <<>>
    /\ Head(wire[who]).fields = "JUSTIFICATION"
    /\ \E response \in JustificationResponses(Head(wire[who]), answers), order \in Orders :
         LET e == on_block_justification_data(Cur, who, response, order, importing_count)
             log == IF watch /\ AnsweredNone(who, response)
                    THEN {l \in answered_none :
                            ~ (l.peer = who /\ l.request = justifications.peer_requests[who])}
                         \cup {[peer |-> who, request |-> justifications.peer_requests[who],
                                elapsed |-> 0, live |-> TRUE]}
                    ELSE answered_none
         IN /\ Commit(e, [wire EXCEPT ![who] = Tail(@)],
                      Op("on_block_justification_data", who,
                         IF who \in DOMAIN justifications.peer_requests
                         THEN justifications.peer_requests[who][2] ELSE 0))
            /\ answered_none' = Untrack(log, e.justifications)
            /\ UNCHANGED <<importing_count, peer_info>>

MaintainSync ==
  \E order \in Orders :
    LET e == maintain_sync(Cur, order, importing_count)
    IN /\ Commit(e, wire, Op("maintain_sync", 0, 0))
       /\ KeepLog(e)
       /\ UNCHANGED <<importing_count, peer_info>>

\* the peers whose answers a dispatch forgets: they are older than
\* JUSTIFICATION_RETRY_WAIT and the queue is not empty
Expired(pj) ==
  IF pj.pending_requests = <<>>
  THEN {}
  ELSE {i.peer : i \in {k \in UNION {Range(pj.previous_requests[r]) :
                                       r \in DOMAIN pj.previous_requests} :
                          k.elapsed >= JUSTIFICATION_RETRY_WAIT}}

Tick ==
  \E order \in Orders :
    LET e == tick(Cur, order)
        who == IF Expired(justifications) = {} THEN 0
               ELSE CHOOSE q \in Expired(justifications) : TRUE
    IN /\ Commit(e, wire, Op("tick", who, 0))
       /\ KeepLog(e)
       /\ UNCHANGED <<importing_count, peer_info>>

RequestJustification(targets) ==
  \E request \in targets, order \in Orders :
    LET e == request_justification(Cur, request[1], request[2], order)
    IN /\ Commit(e, wire, Op("request_justification", 0, request[2]))
       /\ KeepLog(e)
       /\ UNCHANGED <<importing_count, peer_info>>

BlockFinalized(numbers) ==
  \E number \in numbers :
    LET e == block_finalized(Cur, number)
    IN /\ Commit(e, wire, Op("block_finalized", 0, number))
       /\ KeepLog(e)
       /\ UNCHANGED <<importing_count, peer_info>>

UpdateChainInfo(hashes) ==
  \E hash \in hashes :
    LET e == update_chain_info(Cur, hash, NumberOf(hash))
    IN /\ Commit(e, wire, Op("update_chain_info", 0, NumberOf(hash)))
       /\ KeepLog(e)
       /\ UNCHANGED <<importing_count, peer_info>>

OnBlockAnnounce(hashes, parents, client) ==
  \E who \in DOMAIN peer_info, hash \in hashes, parent \in parents,
     known_parent \in client, known \in client :
    LET header == [number |-> NumberOf(hash),
                   parent_hash |-> <<parent, IF NumberOf(hash) = 0 THEN 0
                                             ELSE NumberOf(hash) - 1>>]
        e == on_block_announce(Cur, who, hash, header, known_parent, known, importing_count)
    IN /\ Commit(e, wire, Op("on_block_announce", who, 0))
       /\ KeepLog(e)
       /\ UNCHANGED <<importing_count, peer_info>>

PeerDisconnected ==
  \E who \in DOMAIN peer_info : \E order \in Perms((DOMAIN peers) \ {who}) :
    LET e == peer_disconnected(Cur, who, order, importing_count)
    IN /\ peer_info' = MapRemove(peer_info, who)
       /\ Commit(e, [wire EXCEPT ![who] = <<>>],
                 Op("peer_disconnected", who,
                    IF who \in DOMAIN justifications.peer_requests
                    THEN justifications.peer_requests[who][2] ELSE 0))
       /\ KeepLog(e)
       /\ UNCHANGED importing_count

Restart(infos, statuses) ==
  \E info \in infos, ids \in Orders, status \in [DOMAIN peers -> statuses] :
    LET e == restart(Cur, info, ids, peer_info, status)
    IN /\ importing_count' = 0
       /\ Commit(e, wire, Op("restart", 0, 0))
       /\ KeepLog(e)
       /\ UNCHANGED peer_info

Clear ==
  LET e == clear(Cur)
  IN /\ Commit(e, wire, Op("clear", 0, 0))
     /\ KeepLog(e)
     /\ UNCHANGED <<importing_count, peer_info>>

\* the environment: the import queue fills and empties
ImportQueueStatus(counts) ==
  /\ importing_count' \in counts \ {importing_count}
  /\ Commit(Cur, wire, Op("import_queue", 0, 0))
  /\ KeepLog(Cur)
  /\ UNCHANGED peer_info

Older(elapsed, step) == Min(elapsed + step, JUSTIFICATION_RETRY_WAIT)

\* the environment: step seconds pass; an age of JUSTIFICATION_RETRY_WAIT stands
\* for every age from there on
TimePasses(step) ==
  LET aged == [justifications EXCEPT !.previous_requests =
                 [r \in DOMAIN @ |->
                    [i \in 1..Len(@[r]) |-> [@[r][i] EXCEPT !.elapsed = Older(@, step)]]]]
      log == {[l EXCEPT !.elapsed = Older(@, step)] :
                l \in {k \in answered_none : Older(k.elapsed, step) < JUSTIFICATION_RETRY_WAIT}}
  IN /\ aged # justifications \/ log # answered_none
     /\ Commit([Cur EXCEPT !.justifications = aged], wire, Op("time", 0, 0))
     /\ answered_none' = log
     /\ UNCHANGED <<importing_count, peer_info>>

\* ------------------------------------------------------------ specifications
\* One peer and every handler of the engine.
NextPeer ==
  \/ NewPeer({1}, {<<"a", 1>>, <<"a", 2>>, <<"b", 1>>}, {"Unknown", "InChain", "KnownBad"})
  \/ OnBlockData(Forks, {"some", "none"})
  \/ OnBlockJustificationData({"none", "good"}, FALSE)
  \/ OnBlockAnnounce({<<"a", 2>>}, {"a"}, BOOLEAN)
  \/ MaintainSync
  \/ Tick
  \/ RequestJustification({<<LocalHash(1), 1>>})
  \/ BlockFinalized({1})
  \/ UpdateChainInfo({LocalHash(n) : n \in 1..MaxNum})
  \/ PeerDisconnected
  \/ Restart({<<>>, <<0>>, <<1>>}, {"Unknown"})
  \/ Clear
  \/ ImportQueueStatus({0, MAJOR_SYNC_BLOCKS + 1})

SpecPeer == Init /\ [][NextPeer]_vars

\* Every peer, downloading the local chain and serving one justification request,
\* under a full and an empty import queue.
NextSync ==
  \/ NewPeer(NodeIndex, {<<"a", 2>>}, {"InChain", "Unknown"})
  \/ OnBlockData({"a"}, {"some"})
  \/ OnBlockJustificationData({"none", "good"}, FALSE)
  \/ OnBlockAnnounce({<<"a", 2>>}, {"a"}, {FALSE})
  \/ MaintainSync
  \/ Tick
  \/ RequestJustification({<<LocalHash(1), 1>>})
  \/ BlockFinalized({1})
  \/ UpdateChainInfo({LocalHash(1)})
  \/ PeerDisconnected
  \/ ImportQueueStatus({0, MAX_IMPORTING_BLOCKS + 1})

SpecSync == Init /\ [][NextSync]_vars

\* Every peer, synced to a block of the local chain, serving every justification
\* request.
NextJust ==
  \/ NewPeer(NodeIndex, {LocalHash(n) : n \in 1..MaxNum}, {"InChain"})
  \/ OnBlockJustificationData(JustificationAnswers, FALSE)
  \/ MaintainSync
  \/ Tick
  \/ RequestJustification(JustificationTargets)
  \/ BlockFinalized(1..MaxNum)
  \/ PeerDisconnected
  \/ Clear
  \/ TimePasses(JUSTIFICATION_RETRY_WAIT)

SpecJust == Init /\ [][NextJust]_vars

\* Every peer serving one justification request, the answers without a
\* justification watched while time passes.
NextRetry ==
  \/ NewPeer(NodeIndex, {LocalHash(n) : n \in 1..MaxNum}, {"InChain"})
  \/ OnBlockJustificationData({"none", "good", "bad"}, TRUE)
  \/ MaintainSync
  \/ Tick
  \/ RequestJustification({<<LocalHash(1), 1>>})
  \/ BlockFinalized({1})
  \/ PeerDisconnected
  \/ TimePasses(TimeStep)

SpecRetry == Init /\ [][NextRetry]_vars

\* Every peer connecting with every handshake and every answer of the client
\* about it, then searching the common ancestor or downloading.
NextConnect ==
  \/ NewPeer({1}, Hashes, BlockStatus)
  \/ NewPeer({2}, {<<"a", 2>>}, {"Unknown"})
  \/ OnBlockData(Forks, {"some", "none", "err"})
  \/ UpdateChainInfo({LocalHash(n) : n \in 1..MaxNum})
  \/ PeerDisconnected
  \/ ImportQueueStatus({0, MAJOR_SYNC_BLOCKS + 1})

SpecConnect == Init /\ [][NextConnect]_vars

\* Every peer announcing blocks of both forks, new and stale, with every answer
\* of the client about the block and its parent.
NextAnnounce ==
  \/ NewPeer(NodeIndex, {<<"a", 1>>}, {"InChain", "Unknown"})
  \/ OnBlockAnnounce({<<"b", 1>>, <<"b", 2>>, <<"a", 2>>}, Forks, BOOLEAN)
  \/ UpdateChainInfo({LocalHash(n) : n \in 1..MaxNum})
  \/ PeerDisconnected

SpecAnnounce == Init /\ [][NextAnnounce]_vars

\* ----------------------------------------------------------------- properties
\* the state a request puts the peer it is sent to in
RequestKind(request) ==
  IF request.fields = "JUSTIFICATION" THEN "DownloadingJustification"
  ELSE IF request.fields = "HEADER|JUSTIFICATION" THEN "AncestorSearch"
  ELSE IF request.from[1] = "#" THEN "DownloadingNew"
  ELSE "DownloadingStale"

\* C1: a connected peer has at most one request whose response is outstanding: no
\* handler sends a request to a peer that still has an unanswered one.
C1_OneOutstandingRequest ==
  \A p \in DOMAIN peer_info : ~ orphaned[p]

\* C2: a peer's state differs from Available if and only if exactly one request,
\* of the kind and at the block the state names, is unanswered; an Available peer
\* has no unanswered request.
C2_StateNamesRequest ==
  \A p \in DOMAIN peers :
    /\ ~ orphaned[p]
    /\ IF peers[p].state = Available
       THEN wire[p] = <<>>
       ELSE /\ Len(wire[p]) = 1
            /\ RequestKind(wire[p][1]) = peers[p].state.tag
            /\ wire[p][1].from = peers[p].state.arg

\* C3: every peer record has common_number <= best_number.
C3_CommonAtMostBest ==
  \A p \in DOMAIN peers : peers[p].common_number <= peers[p].best_number

InFlight(pj) == {pj.peer_requests[p] : p \in DOMAIN pj.peer_requests}

\* every request the pending justifications hold anywhere
Tracked(pj) ==
  pj.justifications \cup Range(pj.pending_requests) \cup InFlight(pj)
    \cup DOMAIN pj.previous_requests

\* the last handler sent peer p the justification request r
SentJustification(p, r) ==
  \E i \in 1..Len(sent) : sent[i] = [to |-> p, request |-> JustificationRequest(r)]

Before(seq, x, y) ==
  \E i, j \in 1..Len(seq) : i < j /\ seq[i] = x /\ seq[j] = y

\* C4: every request in flight (a value of peer_requests) and every request in the
\* queue (pending_requests) is a member of the set (justifications).
C4_HeldRequestsTracked ==
  Range(justifications.pending_requests) \cup InFlight(justifications)
    \subseteq justifications.justifications

C4_Witness ==
  /\ op.name = "on_block_justification_data"
  /\ justifications.pending_requests # <<>>
  /\ DOMAIN justifications.peer_requests # {}

\* C5 (as claimed): once peer p has answered the justification request r without a
\* justification, no handler sends p the request r again for
\* JUSTIFICATION_RETRY_WAIT, whatever happens in between.
C5_RetryThrottled ==
  \A l \in answered_none : ~ SentJustification(l.peer, l.request)

\* C5 (amended): once peer p has answered the justification request r without a
\* justification, no handler sends p the request r again for
\* JUSTIFICATION_RETRY_WAIT, as long as r stays tracked since that answer.
C5_RetryThrottledWhileTracked ==
  \A l \in answered_none : l.live => ~ SentJustification(l.peer, l.request)

C5_Witness ==
  \E l \in answered_none :
    /\ l.live
    /\ l.elapsed > 0
    /\ op.name = "tick"
    /\ l.request \in Range(justifications.pending_requests)
    /\ l.peer \in DOMAIN peers
    /\ peers[l.peer].state = Available
    /\ peers[l.peer].best_number >= l.request[2]
    /\ l.peer \notin DOMAIN justifications.peer_requests

\* the engine as a dispatch finds it: the answers older than
\* JUSTIFICATION_RETRY_WAIT forgotten
Purged(e) ==
  [e EXCEPT !.justifications.previous_requests = [r \in DOMAIN @ |-> RetainRecent(@[r])]]

\* the peers a dispatch may ask
Candidates(e) ==
  {p \in DOMAIN e.peers :
     /\ e.peers[p].state = Available
     /\ p \notin DOMAIN e.justifications.peer_requests}

CanServe(e, r) == \E c \in Candidates(e) : PeerEligible(e, c, r)

\* the peers the step gives a justification request to
Assigned == (DOMAIN justifications'.peer_requests) \ DOMAIN justifications.peer_requests

\* the engine at the start of the dispatch that tick or request_justification runs
DispatchEntry ==
  IF op'.name = "request_justification"
  THEN Purged([Cur EXCEPT !.justifications =
                 queue_request(@, <<LocalHash(op'.number), op'.number>>)])
  ELSE Purged(Cur)

\* C6 (as claimed): a dispatch never sends a request while a request queued
\* earlier by queue_request, which some candidate peer can serve, stays
\* undispatched.
C6_OldestFirst ==
  [][op'.name = "tick" =>
       \A p \in Assigned :
         \A r \in Range(justifications'.pending_requests) :
           Before(queued, r, justifications'.peer_requests[p])
             => ~ CanServe(Purged(Cur), r)]_vars

\* C6 (amended): a dispatch serves the pending queue in its order, front first: a
\* request stays undispatched only if no candidate peer can serve it but those
\* the dispatch gave a request ahead of it in the queue.
C6_QueueOrder ==
  [][op'.name \in {"tick", "request_justification"} =>
       \A r \in Range(justifications'.pending_requests) :
         \A c \in Candidates(DispatchEntry) :
           \/ /\ c \in Assigned
              /\ Before(DispatchEntry.justifications.pending_requests,
                        justifications'.peer_requests[c], r)
           \/ ~ PeerEligible(DispatchEntry, c, r)]_vars

C6_Witness ==
  /\ op.name = "tick"
  /\ \E p \in DOMAIN justifications.peer_requests :
       /\ SentJustification(p, justifications.peer_requests[p])
       /\ \E r \in Range(justifications.pending_requests) :
            Before(queued, r, justifications.peer_requests[p])

\* C7 (as claimed): right after peer_disconnected(p), p has no peer record, is no
\* key of the in-flight map, holds no download assignment in the block
\* collection, and the justification request it was serving is the first of the
\* pending queue.
C7_DisconnectRequeuesFirst ==
  [][op'.name = "peer_disconnected" =>
       LET p == op'.who
       IN /\ p \notin DOMAIN peers'
          /\ p \notin DOMAIN justifications'.peer_requests
          /\ p \notin DOMAIN blocks'.peer_requests
          /\ p \in DOMAIN justifications.peer_requests =>
               /\ justifications'.pending_requests # <<>>
               /\ Head(justifications'.pending_requests) = justifications.peer_requests[p]]_vars

\* C7 (amended): right after peer_disconnected(p), p has no peer record, is no key
\* of the in-flight map, holds no download assignment in the block collection,
\* and the justification request it was serving is in the pending queue or in
\* flight at another peer.
C7_DisconnectReleases ==
  [][op'.name = "peer_disconnected" =>
       LET p == op'.who
       IN /\ p \notin DOMAIN peers'
          /\ p \notin DOMAIN justifications'.peer_requests
          /\ p \notin DOMAIN blocks'.peer_requests
          /\ p \in DOMAIN justifications.peer_requests =>
               justifications.peer_requests[p]
                 \in Range(justifications'.pending_requests) \cup InFlight(justifications')]_vars

C7_Witness ==
  /\ op.name = "peer_disconnected"
  /\ op.number > 0
  /\ \E c \in DOMAIN justifications.peer_requests :
       /\ justifications.peer_requests[c] = <<LocalHash(op.number), op.number>>
       /\ SentJustification(c, justifications.peer_requests[c])

\* C8: in a step taken while importing_count > MAX_IMPORTING_BLOCKS no new-block
\* request is sent and no peer moves into DownloadingNew (restart empties the
\* import queue before it runs new_peer).
C8_Backpressure ==
  [][importing_count > MAX_IMPORTING_BLOCKS /\ op'.name # "restart" =>
       /\ \A i \in 1..Len(sent') : RequestKind(sent'[i].request) # "DownloadingNew"
       /\ \A p \in DOMAIN peers' :
            peers'[p].state.tag = "DownloadingNew"
              => p \in DOMAIN peers /\ peers[p].state = peers'[p].state]_vars

C8_Witness ==
  /\ importing_count > MAX_IMPORTING_BLOCKS
  /\ op.name \in {"maintain_sync", "peer_disconnected"}
  /\ \E p \in DOMAIN peers :
       /\ peers[p].state = Available
       /\ needed_blocks(blocks, p, MAX_BLOCKS_TO_REQUEST, peers[p].best_number,
                        peers[p].common_number).found

\* C9: best_queued_number never decreases in a step other than restart.
C9_BestQueuedMonotone ==
  [][op'.name = "restart" \/ best_queued_number' >= best_queued_number]_vars

C9_Witness ==
  /\ op.name = "update_chain_info"
  /\ op.number < best_queued_number

\* C10: right after block_finalized(_, n) no request of number <= n is left in
\* the set, the queue, the in-flight map or the history, and a request enters
\* them only when request_justification is called for it.
C10_FinalizationGC ==
  [][/\ op'.name = "block_finalized" =>
          \A r \in Tracked(justifications') : r[2] > op'.number
     /\ Tracked(justifications') \subseteq
          Tracked(justifications)
            \cup (IF op'.name = "request_justification"
                  THEN {<<LocalHash(op'.number), op'.number>>} ELSE {})]_vars

C10_Witness ==
  /\ op.name = "block_finalized"
  /\ \E p \in DOMAIN peers :
       /\ peers[p].state.tag = "DownloadingJustification"
       /\ NumberOf(peers[p].state.arg) <= op.number
       /\ p \notin DOMAIN justifications.peer_requests

\* C11: for every peer, common_number never decreases in a step other than
\* restart, for as long as the peer's record lives: on_block_announce,
\* block_queued and the ancestor search only raise it.
C11_CommonMonotone ==
  [][op'.name = "restart" \/
       \A p \in (DOMAIN peers) \cap DOMAIN peers' :
         peers'[p].common_number >= peers[p].common_number]_vars

\* the responses peer who may give to the justification request sent to it
AnswersTo(who) ==
  IF wire[who] # <<>> /\ Head(wire[who]).fields = "JUSTIFICATION"
  THEN JustificationResponses(Head(wire[who]), JustificationAnswers)
  ELSE {}

\* the step is on_block_justification_data(who, response)
JustificationStep(who, response) ==
  /\ op'.name = "on_block_justification_data"
  /\ op'.who = who
  /\ response \in AnswersTo(who)
  /\ \E order \in Orders :
       LET e == on_block_justification_data(Cur, who, response, order, importing_count)
       IN /\ peers' = e.peers
          /\ justifications' = e.justifications
          /\ sent' = e.sent
          /\ reported' = e.reported

\* the reports of a handler that reported who once, with the given severity
ReportedOnce(who, severity) == <<[who |-> who, severity |-> severity]>>

\* C12 (as claimed): when a peer in DownloadingJustification(h) answers, an empty
\* response and a block h without a justification are reported Useless, a block
\* of another hash and a justification that fails the import are reported Bad.
C12_ReportSeverities ==
  [][\A who \in DOMAIN peers :
       \A response \in AnswersTo(who) :
         peers[who].state.tag = "DownloadingJustification"
           /\ JustificationStep(who, response)
         => CASE response = <<>> -> reported' = ReportedOnce(who, "Useless")
              [] response # <<>> /\ response[1].hash # peers[who].state.arg ->
                   reported' = ReportedOnce(who, "Bad")
              [] response # <<>> /\ response[1].hash = peers[who].state.arg
                   /\ response[1].justification = "none" ->
                   reported' = ReportedOnce(who, "Useless")
              [] response # <<>> /\ response[1].hash = peers[who].state.arg
                   /\ response[1].justification = "bad" ->
                   reported' = ReportedOnce(who, "Bad")
              [] OTHER -> TRUE]_vars

\* C12 (amended): when a peer in DownloadingJustification(h) answers, an empty
\* response is reported Useless and a block of another hash is reported Bad; a
\* block h whose justification fails the import is reported Bad if the peer's
\* request is in flight; a block h without a justification is not reported,
\* and is recorded in the history of the request in flight; a block h for a
\* request that is in flight no longer is not reported.
C12_ReportsOfAnswers ==
  [][\A who \in DOMAIN peers :
       \A response \in AnswersTo(who) :
         peers[who].state.tag = "DownloadingJustification"
           /\ JustificationStep(who, response)
         => CASE response = <<>> -> reported' = ReportedOnce(who, "Useless")
              [] response # <<>> /\ response[1].hash # peers[who].state.arg ->
                   reported' = ReportedOnce(who, "Bad")
              [] response # <<>> /\ response[1].hash = peers[who].state.arg
                   /\ who \notin DOMAIN justifications.peer_requests ->
                   reported' = <<>>
              [] response # <<>> /\ response[1].hash = peers[who].state.arg
                   /\ who \in DOMAIN justifications.peer_requests
                   /\ response[1].justification = "none" ->
                   /\ reported' = <<>>
                   /\ LET request == justifications.peer_requests[who]
                      IN /\ request \in DOMAIN justifications'.previous_requests
                         /\ [peer |-> who, elapsed |-> 0]
                              \in Range(justifications'.previous_requests[request])
              [] response # <<>> /\ response[1].hash = peers[who].state.arg
                   /\ who \in DOMAIN justifications.peer_requests
                   /\ response[1].justification = "bad" ->
                   reported' = ReportedOnce(who, "Bad")
              [] OTHER -> TRUE]_vars

C12_Witness ==
  /\ op.name = "on_block_justification_data"
  /\ reported = <<>>
  /\ \E r \in DOMAIN justifications.previous_requests :
       [peer |-> op.who, elapsed |-> 0] \in Range(justifications.previous_requests[r])

\* the step is new_peer(who) with the client answering status for the peer's
\* best hash
NewPeerStep(who, status) ==
  /\ op'.name = "new_peer"
  /\ op'.who = who
  /\ who \in DOMAIN peer_info'
  /\ LET e == new_peer(Cur, who, peer_info', status, importing_count)
     IN /\ peers' = e.peers
        /\ blocks' = e.blocks
        /\ sent' = e.sent
        /\ reported' = e.reported

\* the step reported who and left the engine as it was
Refused(who, severity) ==
  /\ reported' = ReportedOnce(who, severity)
  /\ sent' = <<>>
  /\ UNCHANGED <<peers, blocks>>

\* the step gave who the record sync and did nothing else
Inserted(who, sync) ==
  /\ peers' = MapPut(peers, who, sync)
  /\ reported' = <<>>
  /\ UNCHANGED blocks

\* C13: new_peer classifies the peer by the client's status of its best hash, its
\* best_number, importing_count and best_queued_number: KnownBad, or Unknown at
\* number 0: reported Bad, no record; Unknown under importing_count >
\* MAJOR_SYNC_BLOCKS: Available at common_number = best_queued_number, no
\* request; Unknown with best_queued_number > 0: AncestorSearch(min(ours,
\* theirs)) at common_number 0 and exactly one ancestry request at that number;
\* Unknown at genesis: Available at common_number 0, then download_new; Queued
\* or InChain: Available at common_number = best_number, no request.
C13_NewPeerClassification ==
  [][\A who \in NodeIndex \ DOMAIN peers :
       \A status \in {"KnownBad", "Unknown", "Queued", "InChain"} :
         NewPeerStep(who, status) =>
           LET info == peer_info'[who]
               sync(common, state) == PeerSync(common, info.best_hash, info.best_number, state)
           IN CASE status = "KnownBad" -> Refused(who, "Bad")
                [] status = "Unknown" /\ info.best_number = 0 -> Refused(who, "Bad")
                [] status = "Unknown" /\ info.best_number # 0
                     /\ importing_count > MAJOR_SYNC_BLOCKS ->
                     /\ Inserted(who, sync(best_queued_number, Available))
                     /\ sent' = <<>>
                [] status = "Unknown" /\ info.best_number # 0
                     /\ importing_count <= MAJOR_SYNC_BLOCKS /\ best_queued_number > 0 ->
                     LET n == Min(best_queued_number, info.best_number)
                     IN /\ Inserted(who, sync(0, AncestorSearch(n)))
                        /\ Len(sent') = 1
                        /\ sent'[1].to = who
                        /\ RequestKind(sent'[1].request) = "AncestorSearch"
                        /\ sent'[1].request.from = Number(n)
                        /\ sent'[1].request.max = 1
                [] status = "Unknown" /\ info.best_number # 0
                     /\ importing_count <= MAJOR_SYNC_BLOCKS /\ best_queued_number = 0 ->
                     LET d == download_new(insert_peer(Cur, who, sync(0, Available)),
                                           who, importing_count)
                     IN /\ peers' = d.peers
                        /\ blocks' = d.blocks
                        /\ sent' = d.sent
                        /\ reported' = <<>>
                        /\ peers'[who].common_number = 0
                        /\ peers'[who].state.tag \in {"Available", "DownloadingNew"}
                [] OTHER ->
                     /\ Inserted(who, sync(info.best_number, Available))
                     /\ sent' = <<>>]_vars

C13_Witness ==
  /\ op.name = "new_peer"
  /\ op.who \in DOMAIN peers
  /\ peers[op.who].state.tag = "AncestorSearch"
  /\ peers[op.who].state.arg = Number(Min(best_queued_number, peers[op.who].best_number))
  /\ peers[op.who].best_number < best_queued_number
  /\ Len(sent) = 1

\* the responses peer who may give to the block request sent to it
ResponsesTo(who) ==
  IF wire[who] # <<>> /\ Head(wire[who]).fields # "JUSTIFICATION"
  THEN Responses(Head(wire[who]), Forks)
  ELSE {}

\* the step is on_block_data(who, response) with the client answering block_hash
OnBlockDataStep(who, response, block_hash) ==
  /\ op'.name = "on_block_data"
  /\ op'.who = who
  /\ response \in ResponsesTo(who)
  /\ \E order \in Orders :
       LET e == on_block_data(Cur, who, Head(wire[who]), response, block_hash,
                              order, importing_count)
       IN /\ peers' = e.peers
          /\ blocks' = e.blocks
          /\ best_queued_number' = e.best_queued_number
          /\ justifications' = e.justifications
          /\ sent' = e.sent
          /\ reported' = e.reported
          /\ returned' = e.returned

\* the step sent who the ancestry request for block n and nothing else
AncestryRequested(who, n) ==
  /\ Len(sent') = 1
  /\ sent'[1].to = who
  /\ RequestKind(sent'[1].request) = "AncestorSearch"
  /\ sent'[1].request.from = Number(n)
  /\ sent'[1].request.max = 1

\* the step sent no ancestry request and handed no block to the import
NothingToImport ==
  /\ returned' \in {NoReturn, <<0>>}
  /\ \A i \in 1..Len(sent') : RequestKind(sent'[i].request) # "AncestorSearch"

\* C14 (as claimed): on_block_data for a peer in AncestorSearch(n): an empty
\* response is reported Bad; a first block equal to the local block n raises
\* common_number to max(common_number, n), leaves the peer Available and sends no
\* ancestry request; another block at n > 0 moves the peer to AncestorSearch(n-1)
\* with exactly one ancestry request for n-1; another block at n = 0 is reported
\* Bad; a client read error is reported Useless; no blocks are returned.
C14_AncestorSearchStep ==
  [][\A who \in DOMAIN peers :
       \A response \in ResponsesTo(who), block_hash \in {"some", "none", "err"} :
         peers[who].state.tag = "AncestorSearch"
           /\ OnBlockDataStep(who, response, block_hash)
         => LET n == peers[who].state.arg[2]
                found == block_hash = "some" /\ response[1] = LocalHash(n)
            IN CASE response = <<>> ->
                      reported' = ReportedOnce(who, "Bad") /\ returned' = NoReturn
                 [] response # <<>> /\ block_hash = "err" ->
                      reported' = ReportedOnce(who, "Useless") /\ returned' = NoReturn
                 [] response # <<>> /\ block_hash # "err" /\ found ->
                      /\ peers'[who].common_number =
                           IF peers[who].common_number < n THEN n ELSE peers[who].common_number
                      /\ peers'[who].state = Available
                      /\ NothingToImport
                 [] response # <<>> /\ block_hash # "err" /\ ~ found /\ n > 0 ->
                      /\ peers'[who].state = AncestorSearch(n - 1)
                      /\ AncestryRequested(who, n - 1)
                      /\ returned' = NoReturn
                 [] OTHER ->
                      reported' = ReportedOnce(who, "Bad") /\ returned' = NoReturn]_vars

\* C14 (amended): as claimed, but for the first block equal to the local block n:
\* common_number becomes max(common_number, n), the peer becomes Available and
\* maintain_sync runs before the handler returns, so that the peer may end in
\* DownloadingNew or DownloadingJustification with the request for it sent; no
\* ancestry request is sent and no blocks are returned.
C14_AncestorSearchThenMaintain ==
  [][\A who \in DOMAIN peers :
       \A response \in ResponsesTo(who), block_hash \in {"some", "none", "err"} :
         peers[who].state.tag = "AncestorSearch"
           /\ OnBlockDataStep(who, response, block_hash)
         => LET n == peers[who].state.arg[2]
                found == block_hash = "some" /\ response[1] = LocalHash(n)
            IN CASE response = <<>> ->
                      reported' = ReportedOnce(who, "Bad") /\ returned' = NoReturn
                 [] response # <<>> /\ block_hash = "err" ->
                      reported' = ReportedOnce(who, "Useless") /\ returned' = NoReturn
                 [] response # <<>> /\ block_hash # "err" /\ found ->
                      /\ peers'[who].common_number =
                           IF peers[who].common_number < n THEN n ELSE peers[who].common_number
                      /\ peers'[who].state.tag
                           \in {"Available", "DownloadingNew", "DownloadingJustification"}
                      /\ \E order \in Orders :
                           LET m == maintain_sync(
                                      [Cur EXCEPT !.peers[who].common_number =
                                                    peers'[who].common_number,
                                                  !.peers[who].state = Available],
                                      order, importing_count)
                           IN peers' = m.peers /\ sent' = m.sent
                      /\ reported' = <<>>
                      /\ NothingToImport
                 [] response # <<>> /\ block_hash # "err" /\ ~ found /\ n > 0 ->
                      /\ peers'[who].state = AncestorSearch(n - 1)
                      /\ AncestryRequested(who, n - 1)
                      /\ returned' = NoReturn
                 [] OTHER ->
                      reported' = ReportedOnce(who, "Bad") /\ returned' = NoReturn]_vars

C14_Witness ==
  /\ op.name = "on_block_data"
  /\ op.who \in DOMAIN peers
  /\ peers[op.who].state = AncestorSearch(0)
  /\ Len(sent) = 1
  /\ sent[1] = [to |-> op.who,
                request |-> BlockRequest("HEADER|JUSTIFICATION", Number(0), "Ascending", 1)]
  /\ returned = NoReturn

\* the response that carries block hash with the given justification
Answer(hash, justification) == <<[hash |-> hash, justification |-> justification]>>

\* C15: when a peer in DownloadingJustification(h) with the in-flight request
\* (h, n) answers with block h and a justification the import accepts, (h, n) is
\* afterwards in none of the set, the queue, the in-flight map and the history,
\* no peer is reported, and the peer is Available or has been sent one other
\* request by the maintain_sync that follows.
C15_JustificationRoundTrip ==
  [][\A who \in DOMAIN peers :
       LET h == peers[who].state.arg
       IN /\ peers[who].state.tag = "DownloadingJustification"
          /\ who \in DOMAIN justifications.peer_requests
          /\ justifications.peer_requests[who][1] = h
          /\ JustificationStep(who, Answer(h, "good"))
          => /\ justifications.peer_requests[who] \notin Tracked(justifications')
             /\ reported' = <<>>
             /\ who \in DOMAIN peers'
             /\ \/ peers'[who].state = Available /\ SentTo(sent', who) = <<>>
                \/ /\ peers'[who].state # peers[who].state
                   /\ Len(SentTo(sent', who)) = 1
                   /\ RequestKind(SentTo(sent', who)[1]) = peers'[who].state.tag
                   /\ SentTo(sent', who)[1].from = peers'[who].state.arg]_vars

C15_Witness ==
  /\ op.name = "on_block_justification_data"
  /\ op.number > 0
  /\ <<LocalHash(op.number), op.number>> \notin Tracked(justifications)
  /\ justifications.pending_requests # <<>>
  /\ op.who \in DOMAIN peers
  /\ peers[op.who].state = Available

\* the engine after on_response requeued the request in flight at who: the
\* request first in the queue, its history and the reports as given
Requeued(who, history, reports) ==
  LET request == justifications.peer_requests[who]
  IN [Cur EXCEPT
        !.peers[who].state = Available,
        !.justifications.peer_requests = MapRemove(@, who),
        !.justifications.pending_requests = <<request>> \o @,
        !.justifications.previous_requests =
          IF history = <<>> THEN @
          ELSE MapPut(@, request,
                      (IF request \in DOMAIN @ THEN @[request] ELSE <<>>) \o history),
        !.reported = reports]

\* the step ends with maintain_sync run on the engine e
ThenMaintainSync(e) ==
  \E order \in Orders :
    LET m == maintain_sync(e, order, importing_count)
    IN /\ peers' = m.peers
       /\ justifications' = m.justifications
       /\ sent' = m.sent
       /\ reported' = m.reported

\* C16: when peer p with the in-flight request req answers without a
\* justification, (p, now) is appended to the history of req; when it answers
\* with a justification the import rejects, p is reported Bad; in both cases
\* on_response leaves req out of the in-flight map, in the set and first in the
\* queue, which is how the dispatch that follows finds it.
C16_RecoverableFailuresRequeue ==
  [][\A who \in DOMAIN peers :
       \A justification \in {"none", "bad"} :
         LET h == peers[who].state.arg
         IN /\ peers[who].state.tag = "DownloadingJustification"
            /\ who \in DOMAIN justifications.peer_requests
            /\ JustificationStep(who, Answer(h, justification))
            => LET after ==
                     IF justification = "none"
                     THEN Requeued(who, <<[peer |-> who, elapsed |-> 0]>>, <<>>)
                     ELSE Requeued(who, <<>>, ReportedOnce(who, "Bad"))
                   req == justifications.peer_requests[who]
               IN /\ who \notin DOMAIN after.justifications.peer_requests
                  /\ req \in after.justifications.justifications
                  /\ Head(after.justifications.pending_requests) = req
                  /\ ThenMaintainSync(after)
                  /\ req \in justifications'.justifications
                  /\ req \in Range(justifications'.pending_requests)
                            \cup InFlight(justifications')]_vars

C16_Witness ==
  /\ op.name = "on_block_justification_data"
  /\ op.number > 0
  /\ justifications.pending_requests # <<>>
  /\ Head(justifications.pending_requests) = <<LocalHash(op.number), op.number>>
  /\ <<LocalHash(op.number), op.number>> \in DOMAIN justifications.previous_requests
  /\ [peer |-> op.who, elapsed |-> 0]
       \in Range(justifications.previous_requests[<<LocalHash(op.number), op.number>>])
  /\ reported = <<>>

\* the header of the block hash whose parent is on the fork parent
Header(hash, parent) ==
  [number |-> NumberOf(hash),
   parent_hash |-> <<parent, IF NumberOf(hash) = 0 THEN 0 ELSE NumberOf(hash) - 1>>]

\* the step is on_block_announce(who, hash, header) with the client answering
\* known_parent and known
AnnounceStep(who, hash, header, known_parent, known) ==
  /\ op'.name = "on_block_announce"
  /\ op'.who = who
  /\ LET e == on_block_announce(Cur, who, hash, header, known_parent, known, importing_count)
     IN /\ peers' = e.peers
        /\ blocks' = e.blocks
        /\ sent' = e.sent
        /\ reported' = e.reported

\* the step sent who one request for the block hash and left it in
\* DownloadingStale(hash)
StaleRequested(who, hash, direction, max) ==
  /\ sent' = <<[to |-> who,
                request |-> BlockRequest(required_block_attributes, hash, direction, max)]>>
  /\ peers'[who].state = DownloadingStale(hash)

\* the peer's record after the announcement of (hash, number) was noted
Announced(who, hash, header, known_parent, known) ==
  LET best == IF header.number > peers[who].best_number
              THEN [Cur EXCEPT !.peers[who].best_number = header.number,
                               !.peers[who].best_hash = hash]
              ELSE Cur
  IN IF header.parent_hash = best_queued_hash \/ known_parent
     THEN [best EXCEPT !.peers[who].common_number = header.number - 1]
     ELSE IF known
     THEN [best EXCEPT !.peers[who].common_number = header.number]
     ELSE best

\* C17: an Available peer announces (hash, number), number > 0, hash neither
\* known nor being downloaded: a stale block (number <= best_queued_number) whose
\* parent is neither known nor being downloaded is requested with one request
\* from hash, Descending, max MAX_UNKNOWN_FORK_DOWNLOAD_LEN, a stale block whose
\* parent is known with one request from hash, Ascending, max 1, the peer going
\* to DownloadingStale(hash) in both cases; for a new block download_new runs
\* for the peer.  A block that is known or being downloaded is not requested.
C17_AnnounceClassification ==
  [][\A who \in DOMAIN peers :
       \A hash \in Hashes, parent \in Forks, known_parent \in BOOLEAN, known \in BOOLEAN :
         LET header == Header(hash, parent)
             downloading(h) == \E p \in DOMAIN peers : peers[p].state = DownloadingStale(h)
         IN /\ peers[who].state = Available
            /\ header.number > 0
            /\ AnnounceStep(who, hash, header, known_parent, known)
            => IF known \/ downloading(hash)
               THEN sent' = <<>> /\ peers'[who].state = Available
               ELSE IF header.number <= best_queued_number
               THEN /\ ~ (known_parent \/ downloading(header.parent_hash))
                         => StaleRequested(who, hash, "Descending",
                                           MAX_UNKNOWN_FORK_DOWNLOAD_LEN)
                    /\ known_parent => StaleRequested(who, hash, "Ascending", 1)
               ELSE LET d == download_new(Announced(who, hash, header, known_parent, known),
                                          who, importing_count)
                    IN /\ peers' = d.peers
                       /\ blocks' = d.blocks
                       /\ sent' = d.sent]_vars

C17_Witness ==
  /\ op.name = "on_block_announce"
  /\ op.who \in DOMAIN peers
  /\ peers[op.who].state.tag = "DownloadingStale"
  /\ Len(sent) = 1
  /\ sent[1].request.direction = "Descending"
  /\ sent[1].request.max = MAX_UNKNOWN_FORK_DOWNLOAD_LEN
  /\ \E p \in DOMAIN peers : p # op.who /\ peers[p].state.tag = "DownloadingStale"

\* the answers of peer p to the request r that the history holds
AnswersOf(pj, p, r) ==
  IF r \in DOMAIN pj.previous_requests
  THEN {i \in Range(pj.previous_requests[r]) : i.peer = p}
  ELSE {}

\* C18: once JUSTIFICATION_RETRY_WAIT has passed since peer p answered the
\* request req without a justification, the next dispatch that finds req at the
\* front of the queue and p a candidate (Available, not in flight, best_number >=
\* number) hands req out, to p if p is the only candidate; that dispatch forgets
\* the answers older than JUSTIFICATION_RETRY_WAIT and keeps the others.
C18_RetryWindowExpiry ==
  [][op'.name = "tick" /\ justifications.pending_requests # <<>> =>
       LET req == Head(justifications.pending_requests)
       IN /\ \A r \in DOMAIN justifications.previous_requests :
               /\ r \in DOMAIN justifications'.previous_requests
               /\ Range(justifications'.previous_requests[r]) =
                    {i \in Range(justifications.previous_requests[r]) :
                       i.elapsed < JUSTIFICATION_RETRY_WAIT}
          /\ \A p \in Candidates(Cur) :
               /\ peers[p].best_number >= req[2]
               /\ AnswersOf(justifications, p, req) # {}
               /\ \A i \in AnswersOf(justifications, p, req) :
                    i.elapsed >= JUSTIFICATION_RETRY_WAIT
               => /\ req \in InFlight(justifications')
                  /\ Candidates(Cur) = {p} =>
                       /\ p \in DOMAIN justifications'.peer_requests
                       /\ justifications'.peer_requests[p] = req
                       /\ sent' = <<[to |-> p, request |-> JustificationRequest(req)]>>]_vars

C18_Witness ==
  /\ op.name = "tick"
  /\ op.who \in DOMAIN justifications.peer_requests
  /\ SentJustification(op.who, justifications.peer_requests[op.who])
  /\ AnswersOf(justifications, op.who, justifications.peer_requests[op.who]) = {}
  /\ justifications.peer_requests[op.who] \in DOMAIN justifications.previous_requests

\* the justification requests the step sent to peer p
JustificationsSentTo(p) ==
  SelectSeq(SentTo(sent', p), LAMBDA request : request.fields = "JUSTIFICATION")

\* C19: every justification request for (hash, number) a dispatch sends goes to
\* one peer, which gets no other in that dispatch and ends with the in-flight
\* entry (hash, number) and the state DownloadingJustification(hash); when the
\* dispatch started that peer was Available, had no in-flight entry and had
\* best_number >= number.
C19_DispatchToEligible ==
  [][\A p \in NodeIndex :
       JustificationsSentTo(p) # <<>> =>
         /\ Len(JustificationsSentTo(p)) = 1
         /\ p \in DOMAIN peers'
         /\ p \in DOMAIN justifications'.peer_requests
         /\ LET req == justifications'.peer_requests[p]
            IN /\ JustificationsSentTo(p)[1] = BlockRequest("JUSTIFICATION", req[1], "Ascending", 1)
               /\ peers'[p].state = DownloadingJustification(req[1])
               /\ peers'[p].best_number >= req[2]
               /\ \A q \in (DOMAIN justifications'.peer_requests) \ {p} :
                    JustificationsSentTo(q) # <<>> => justifications'.peer_requests[q] # req
               /\ op'.name \in {"tick", "request_justification", "maintain_sync"} =>
                    /\ p \in Candidates(Cur)
                    /\ peers[p].best_number >= req[2]]_vars

C19_Witness ==
  /\ op.name = "tick"
  /\ \E p \in DOMAIN justifications.peer_requests :
       /\ SentJustification(p, justifications.peer_requests[p])
       /\ \E q \in Candidates(Cur) :
            /\ peers[q].best_number < justifications.peer_requests[p][2]
            /\ justifications.pending_requests = <<>>

\* C20: an announcement by a peer in AncestorSearch(n) leaves the peer in
\* AncestorSearch(n) at the same common_number, sends no request and changes no
\* other peer's record; of the peer's record it changes best_hash and
\* best_number only, and only to a higher announced block.
C20_AnnounceKeepsSearch ==
  [][\A who \in DOMAIN peers :
       /\ peers[who].state.tag = "AncestorSearch"
       /\ op'.name = "on_block_announce"
       /\ op'.who = who
       => /\ DOMAIN peers' = DOMAIN peers
          /\ peers'[who].state = peers[who].state
          /\ peers'[who].common_number = peers[who].common_number
          /\ \/ peers'[who] = peers[who]
             \/ /\ peers'[who].best_number > peers[who].best_number
                /\ NumberOf(peers'[who].best_hash) = peers'[who].best_number
          /\ \A q \in (DOMAIN peers) \ {who} : peers'[q] = peers[q]
          /\ sent' = <<>>
          /\ reported' = <<>>
          /\ UNCHANGED <<blocks, best_queued_number, best_queued_hash, justifications>>]_vars

C20_Witness ==
  /\ op.name = "on_block_announce"
  /\ op.who \in DOMAIN peers
  /\ peers[op.who].state.tag = "AncestorSearch"
  /\ peers[op.who].best_number > NumberOf(peer_info[op.who].best_hash)
  /\ peers[op.who].best_number > best_queued_number

\* the step ran block_queued for a block of the given number: every peer is left
\* at common_number = min(number, best_number), none in AncestorSearch, and the
\* best queued block moved only to a higher one
BlockQueuedFor(number) ==
  /\ DOMAIN peers' = DOMAIN peers
  /\ \A p \in DOMAIN peers :
       /\ peers'[p].common_number = Min(number, peers[p].best_number)
       /\ peers'[p].best_number = peers[p].best_number
       /\ peers'[p].state.tag # "AncestorSearch"
       /\ peers[p].state.tag = "AncestorSearch" =>
            peers'[p].state.tag \in {"Available", "DownloadingNew", "DownloadingJustification"}
  /\ IF number > best_queued_number
     THEN best_queued_number' = number /\ NumberOf(best_queued_hash') = number
     ELSE UNCHANGED <<best_queued_number, best_queued_hash>>

Count(seq, x) == Cardinality({i \in DOMAIN seq : seq[i] = x})

\* the queue the dispatch of the step starts with
QueueAtEntry ==
  IF op'.name = "request_justification"
  THEN queue_request(justifications, <<LocalHash(op'.number), op'.number>>).pending_requests
  ELSE justifications.pending_requests

\* C22: dispatch terminates: its loop takes a peer at most once for every pair of
\* a candidate peer and a queued request, and once more to find the queue empty;
\* when it returns, every request of the queue it started with is in flight at
\* exactly one peer it was given to, or still in the queue: none is dropped
\* and none duplicated.
C22_DispatchTerminates ==
  [][op'.name \in {"tick", "request_justification", "maintain_sync"} =>
       /\ \A order \in Orders :
            LET entry == DispatchEntry
                available_peers == AvailablePeers(entry, order)
            IN DispatchIterations(entry, available_peers, Back(available_peers), <<>>)
                 <= Len(available_peers) * Len(QueueAtEntry) + 1
       /\ \A r \in Range(QueueAtEntry) \cup Range(justifications'.pending_requests)
                   \cup {justifications'.peer_requests[p] : p \in Assigned} :
            Count(QueueAtEntry, r) =
              Count(justifications'.pending_requests, r)
                + Cardinality({p \in Assigned : justifications'.peer_requests[p] = r})]_vars

C22_Witness ==
  /\ op.name = "tick"
  /\ sent # <<>>
  /\ justifications.pending_requests # <<>>
  /\ Candidates(Cur) # {}

\* the step sent peer who an ancestry request
AskedAncestry(who) ==
  \E i \in 1..Len(sent') :
    sent'[i].to = who /\ RequestKind(sent'[i].request) = "AncestorSearch"

\* the step reported peer who
Reported(who) == \E i \in 1..Len(reported') : reported'[i].who = who

\* C23 (as claimed): a peer that enters AncestorSearch(n0) gives at most n0 + 1
\* ancestry responses: each mismatching one strictly lowers the height, and the
\* response after which no ancestry request is sent leaves the peer Available
\* with common_number the highest height <= n0 at which its answer equals the
\* local block, or reported Bad or Useless; nothing else ends the search of a
\* connected peer.
C23_AncestorSearchTerminates ==
  [][\A who \in DOMAIN peers :
       peers[who].state.tag = "AncestorSearch" /\ who \in DOMAIN peers'
         /\ op'.name \notin {"restart", "clear"}
       => LET n == peers[who].state.arg[2]
          IN IF op'.name = "on_block_data" /\ op'.who = who
             THEN /\ search[who].responses + 1 <= search[who].start + 1
                  /\ IF AskedAncestry(who)
                     THEN /\ peers'[who].state.tag = "AncestorSearch"
                          /\ peers'[who].state.arg[2] < n
                     ELSE \/ Reported(who)
                          \/ /\ peers'[who].state = Available
                             /\ peers'[who].common_number = n
                             /\ n = search[who].start - search[who].responses
             ELSE /\ peers'[who].state = peers[who].state
                  /\ ~ AskedAncestry(who)]_vars

\* C23 (amended): a peer that enters AncestorSearch(n0) gives at most n0 + 1
\* ancestry responses: each mismatching one strictly lowers the height, and the
\* response after which no ancestry request is sent leaves the peer with
\* common_number the highest height <= n0 at which its answer equals the local
\* block, Available or already given its next request by maintain_sync, or
\* reported Bad or Useless; the only other end of the search of a connected peer
\* is block_queued, which aborts it.
C23_AncestorSearchEnds ==
  [][\A who \in DOMAIN peers :
       peers[who].state.tag = "AncestorSearch" /\ who \in DOMAIN peers'
         /\ op'.name \notin {"restart", "clear"}
       => LET n == peers[who].state.arg[2]
          IN IF op'.name = "on_block_data" /\ op'.who = who
             THEN /\ search[who].responses + 1 <= search[who].start + 1
                  /\ IF AskedAncestry(who)
                     THEN /\ peers'[who].state.tag = "AncestorSearch"
                          /\ peers'[who].state.arg[2] < n
                     ELSE \/ Reported(who)
                          \/ /\ peers'[who].state.tag
                                  \in {"Available", "DownloadingNew", "DownloadingJustification"}
                             /\ peers'[who].common_number = n
                             /\ n = search[who].start - search[who].responses
             ELSE /\ \/ peers'[who].state = peers[who].state
                     \/ /\ op'.name \in {"update_chain_info", "on_block_data"}
                        /\ \E number \in Numbers : BlockQueuedFor(number)
                  /\ ~ AskedAncestry(who)]_vars

C23_Witness ==
  /\ op.name = "on_block_data"
  /\ op.who \in DOMAIN peers
  /\ peers[op.who].state = AncestorSearch(0)
  /\ search[op.who] = [start |-> MaxNum, responses |-> MaxNum + 1]
  /\ reported = ReportedOnce(op.who, "Bad")

\* C24: every in-flight entry peer_requests[p] = (hash, number) belongs to a
\* connected peer p whose state is DownloadingJustification(hash).
C24_NoStrandedInFlight ==
  \A p \in DOMAIN justifications.peer_requests :
    /\ p \in DOMAIN peers
    /\ peers[p].state = DownloadingJustification(justifications.peer_requests[p][1])

\* C25: each tracked justification request is held exactly once: the set
\* justifications equals the requests of the queue together with the requests
\* in flight, the queue holds no request twice, no request is both queued and
\* in flight, and no request is in flight at two peers.
C25_HeldExactlyOnce ==
  LET pj == justifications
  IN /\ pj.justifications = Range(pj.pending_requests) \cup InFlight(pj)
     /\ \A r \in Range(pj.pending_requests) : Count(pj.pending_requests, r) = 1
     /\ Range(pj.pending_requests) \cap InFlight(pj) = {}
     /\ \A p, q \in DOMAIN pj.peer_requests :
          pj.peer_requests[p] = pj.peer_requests[q] => p = q

\* request_justification called again for a request that was already in flight,
\* while another request waits in the queue
C25_Witness ==
  /\ op.name = "request_justification"
  /\ <<LocalHash(op.number), op.number>> \in InFlight(justifications)
  /\ \A p \in NodeIndex : ~ SentJustification(p, <<LocalHash(op.number), op.number>>)
  /\ justifications.pending_requests # <<>>

====
